---- MODULE Spec2Model ----
(***************************************************************************)
(* Preflight MCP server: QCValidator (qc_validate.py), PreflightBuilder    *)
(* (preflight_build.py) and the call_tool dispatcher (server.py).          *)
(*                                                                         *)
(* Text representation.  An article text is a sequence of lines (the       *)
(* result of split('\n')); a line is a sequence of tokens.  A token is a   *)
(* word, or one of the marks the code looks for: a run of '#' opening a    *)
(* line, "[[", "]]", a sentence terminator ".", "!", "?", or "*".          *)
(* Python's substring test `a in b` is containment of the token sequence a *)
(* as a contiguous run of b; str.lower() maps tokens through LowerMap.     *)
(* Scores are integers; the composite score is kept in tenths (850 is      *)
(* 85.0) and the weights in hundredths (25 is 0.25).                       *)
(***************************************************************************)
EXTENDS Integers, Sequences, FiniteSets, TLC

VARIABLES
    auto_fix_attempts,  \* QCValidator.auto_fix_attempts of the shared qc_validator
    db_conn,            \* PreflightBuilder.db_conn: "none" | "open" | "broken"
    task,               \* per call_tool task: its frame (position, arguments, locals)
    running,            \* the task the event loop is executing, 0 when none
    response,           \* what the last finished call_tool returned, <<>> before
    appended,           \* history: disclaimers appended by auto-fix so far
    payload,            \* the request under test, "any" when calls draw freely
    probe               \* status probe: <<>> or [score, status]

vars == <<auto_fix_attempts, db_conn, task, running, response, appended, payload, probe>>

----------------------------------------------------------------------------
(* Strings *)

\* str.lower() on the tokens that have an upper-case form in the inputs
LowerMap ==
    ("Casino" :> "casino") @@ ("Enligt" :> "enligt") @@
    ("Riksarkivet" :> "riksarkivet") @@ ("Spela" :> "spela") @@
    ("Läs" :> "läs") @@ ("Besök" :> "besök") @@ ("Buy" :> "buy") @@
    ("Intro" :> "intro") @@ ("Guide" :> "guide") @@ ("Så" :> "så") @@
    ("Test" :> "test") @@ ("Detta" :> "detta") @@ ("En" :> "en") @@
    ("A" :> "a") @@ ("B" :> "b") @@ ("C" :> "c")

Lower(t) == IF t \in DOMAIN LowerMap THEN LowerMap[t] ELSE t

LowerSeq(s) == [i \in 1..Len(s) |-> Lower(s[i])]

\* Python `needle in hay` on strings
Contains(hay, needle) ==
    \E i \in 0..(Len(hay) - Len(needle)) :
        \A j \in 1..Len(needle) : hay[i + j] = needle[j]

\* tokens that hold no \w character
NonWord == {"##", "###", "[[", "]]", ".", "!", "?", "*"}

\* number of matches of \b\w+\b inside one token
WordsIn(t) == IF t \in NonWord THEN 0 ELSE 1

RECURSIVE SumWords(_)
SumWords(line) ==
    IF line = <<>> THEN 0 ELSE WordsIn(Head(line)) + SumWords(Tail(line))

RECURSIVE Flatten(_)
\* the whole text as one token stream (line breaks are white space)
Flatten(text) ==
    IF text = <<>> THEN <<>> ELSE Head(text) \o Flatten(Tail(text))

\* `phrase in text_lower` for a phrase without a line break
InTextLower(text, phrase) ==
    \E i \in 1..Len(text) : Contains(LowerSeq(text[i]), phrase)

----------------------------------------------------------------------------
(* QCValidator._parse_article and its helpers *)

HeaderMarks == {"##", "###"}

\* line.startswith('##')
IsHeader(line) == line # <<>> /\ Head(line) \in HeaderMarks

\* len(re.match(r'^#+', line).group())
HeaderLevel(line) == IF Head(line) = "##" THEN 2 ELSE 3

SentenceEnd == {".", "!", "?"}

RECURSIVE SplitOn(_, _, _)
\* re.split(r'[.!?]+', text), empty pieces dropped
SplitOn(line, cur, acc) ==
    IF line = <<>>
    THEN IF cur = <<>> THEN acc ELSE Append(acc, cur)
    ELSE IF Head(line) \in SentenceEnd
         THEN SplitOn(Tail(line), <<>>, IF cur = <<>> THEN acc ELSE Append(acc, cur))
         ELSE SplitOn(Tail(line), Append(cur, Head(line)), acc)

split_sentences(line) == SplitOn(line, <<>>, <<>>)

\* position of the first "]]" at or after index i, 0 when there is none
RECURSIVE NextClose(_, _)
NextClose(line, i) ==
    IF i > Len(line) THEN 0
    ELSE IF line[i] = "]]" THEN i ELSE NextClose(line, i + 1)

RECURSIVE LinksFrom(_, _)
\* re.finditer(r'\[\[(.*?)\]\]', ...) on one line, scanning from index i
LinksFrom(line, i) ==
    IF i > Len(line) THEN <<>>
    ELSE IF line[i] = "[["
         THEN LET j == NextClose(line, i + 1) IN
              IF j = 0 THEN <<>>
              ELSE <<[text |-> SubSeq(line, i + 1, j - 1)]>> \o LinksFrom(line, j + 1)
         ELSE LinksFrom(line, i + 1)

RECURSIVE extract_links(_)
extract_links(text) ==
    IF text = <<>> THEN <<>>
    ELSE LinksFrom(Head(text), 1) \o extract_links(Tail(text))

RECURSIVE CountWords(_)
\* len(re.findall(r'\b\w+\b', article_text))
CountWords(text) ==
    IF text = <<>> THEN 0 ELSE SumWords(Head(text)) + CountWords(Tail(text))

Paragraph(line, i) ==
    [ text        |-> line,
      line_number |-> i,
      has_link    |-> (\E k \in 1..Len(line) : line[k] = "[[")
                      /\ (\E k \in 1..Len(line) : line[k] = "]]"),
      sentences   |-> split_sentences(line) ]

RECURSIVE ParseLines(_, _, _, _)
\* the loop over lines; current is <<>> (None) or <<the open section>>
ParseLines(lines, i, sections, current) ==
    IF i > Len(lines) THEN sections \o current
    ELSE LET line == lines[i] IN
         IF IsHeader(line)
         THEN ParseLines(lines, i + 1, sections \o current,
                         << [ level       |-> HeaderLevel(line),
                              title       |-> Tail(line),
                              paragraphs  |-> <<>>,
                              line_number |-> i - 1 ] >>)
         ELSE IF line # <<>> /\ current # <<>>
              THEN ParseLines(lines, i + 1, sections,
                              << [current[1] EXCEPT
                                    !.paragraphs = Append(@, Paragraph(line, i - 1))] >>)
              ELSE ParseLines(lines, i + 1, sections, current)

parse_article(article_text) ==
    [ sections   |-> ParseLines(article_text, 1, <<>>, <<>>),
      links      |-> extract_links(article_text),
      word_count |-> CountWords(article_text),
      full_text  |-> article_text ]

----------------------------------------------------------------------------
(* Plans.  A preflight_matrix is a record whose keys may be absent, as in   *)
(* the Python dict; <<>> (the empty dict, or None) is "no plan".            *)

Has(d, k) == k \in DOMAIN d

\* truth value of `preflight_matrix` in `if preflight_matrix:`
Truthy(d) == DOMAIN d # {}

Issue(type, category, code) == [type |-> type, category |-> category, code |-> code]

\* what a rule returns: (score, issues), or the key whose lookup raised KeyError
Returns(score, issues) == [error |-> "", score |-> score, issues |-> issues]

Raises(key) == [error |-> key, score |-> 0, issues |-> <<>>]

Abs(n) == IF n < 0 THEN -n ELSE n

default_word_count == 800

\* preflight_matrix["anchor_plan"]["primary"] can be read
HasPrimary(plan) == Has(plan, "anchor_plan") /\ Has(plan.anchor_plan, "primary")

\* the key that fails when it cannot
PrimaryKeyError(plan) == IF Has(plan, "anchor_plan") THEN "primary" ELSE "anchor_plan"

\* any(link["text"] == primary for link in article_data["links"])
Linked(links, primary) == \E k \in 1..Len(links) : links[k].text = primary

\* word_diff > target_word_count * 0.2; the float product is never below the
\* exact one, so on integers this is 5 * word_diff > target_word_count
WordCountOff(word_count, target) == 5 * Abs(word_count - target) > target

validate_preflight_compliance(article_data, plan) ==
    IF ~HasPrimary(plan) THEN Raises(PrimaryKeyError(plan))
    ELSE LET primary  == plan.anchor_plan.primary
             linked   == Linked(article_data.links, primary)
             target   == IF Has(plan, "word_count") THEN plan.word_count
                         ELSE default_word_count
             mismatch == WordCountOff(article_data.word_count, target)
         IN Returns(100 - (IF linked THEN 0 ELSE 30) - (IF mismatch THEN 10 ELSE 0),
                    (IF linked THEN <<>>
                     ELSE <<Issue("error", "anchor", "MISSING_PRIMARY_ANCHOR")>>)
                    \o (IF mismatch
                        THEN <<Issue("warning", "content", "WORD_COUNT_MISMATCH")>>
                        ELSE <<>>))

RECURSIVE EmptySectionIssues(_)
\* one EMPTY_SECTION per section without paragraphs, in document order
EmptySectionIssues(sections) ==
    IF sections = <<>> THEN <<>>
    ELSE (IF Head(sections).paragraphs = <<>>
          THEN <<Issue("warning", "structure", "EMPTY_SECTION")>>
          ELSE <<>>) \o EmptySectionIssues(Tail(sections))

min_sections == 3

\* variant of validate_draft_quality that wants more than min_sections sections
validate_draft_qualityStrict(article_data) ==
    LET sections == article_data.sections
        few      == Len(sections) <= min_sections
        empties  == EmptySectionIssues(sections)
    IN Returns(100 - (IF few THEN 20 ELSE 0) - 10 * Len(empties),
               (IF few THEN <<Issue("warning", "structure", "INSUFFICIENT_SECTIONS")>>
                ELSE <<>>) \o empties)

validate_draft_quality(article_data) ==
    LET sections == article_data.sections
        few      == Len(sections) < min_sections
        empties  == EmptySectionIssues(sections)
    IN Returns(100 - (IF few THEN 20 ELSE 0) - 10 * Len(empties),
               (IF few THEN <<Issue("warning", "structure", "INSUFFICIENT_SECTIONS")>>
                ELSE <<>>) \o empties)

RECURSIVE ScanParagraphs(_, _, _, _, _)
\* the inner loop of _validate_anchor_placement: every paragraph with a link
\* overwrites anchor_location when some link of the article is the anchor
ScanParagraphs(paragraphs, p, s_idx, linked, loc) ==
    IF p > Len(paragraphs) THEN loc
    ELSE ScanParagraphs(paragraphs, p + 1, s_idx, linked,
                        IF paragraphs[p].has_link /\ linked
                        THEN <<[section_idx |-> s_idx, paragraph |-> p]>>
                        ELSE loc)

\* variant of ScanSections that never looks at the titles
ScanSectionsBodyOnly(sections, s, target_anchor, linked, loc) ==
    [in_header |-> FALSE, location |-> loc]

RECURSIVE ScanSections(_, _, _, _, _)
\* the outer loop: stops at the first title that contains the anchor text
ScanSections(sections, s, target_anchor, linked, loc) ==
    IF s > Len(sections) THEN [in_header |-> FALSE, location |-> loc]
    ELSE IF Contains(sections[s].title, target_anchor)
         THEN [in_header |-> TRUE, location |-> loc]
         ELSE ScanSections(sections, s + 1, target_anchor, linked,
                           ScanParagraphs(sections[s].paragraphs, 1, s - 1, linked, loc))

max_paragraph == 5

validate_anchor_placement(article_data, plan) ==
    IF ~Truthy(plan) THEN Returns(70, <<>>)
    ELSE IF ~HasPrimary(plan) THEN Raises(PrimaryKeyError(plan))
    ELSE IF ~Has(plan.anchor_plan, "placement") THEN Raises("placement")
    ELSE LET target_anchor  == plan.anchor_plan.primary
             target_section == plan.anchor_plan.placement.section
             sections == article_data.sections
             scan == ScanSections(sections, 1, target_anchor,
                                  Linked(article_data.links, target_anchor), <<>>)
         IN IF scan.in_header
            THEN Returns(0, <<Issue("error", "anchor", "ANCHOR_IN_HEADER")>>)
            ELSE IF scan.location = <<>>
            THEN Returns(0, <<Issue("error", "anchor", "ANCHOR_NOT_FOUND")>>)
            ELSE LET loc   == scan.location[1]
                     wrong == target_section = "mittpunkt"
                              /\ Abs(loc.section_idx - (Len(sections) \div 2)) > 1
                     deep  == loc.paragraph > max_paragraph
                 IN Returns(100 - (IF wrong THEN 20 ELSE 0) - (IF deep THEN 15 ELSE 0),
                            (IF wrong
                             THEN <<Issue("warning", "anchor", "ANCHOR_PLACEMENT_WRONG")>>
                             ELSE <<>>)
                            \o (IF deep
                                THEN <<Issue("warning", "anchor", "ANCHOR_TOO_DEEP")>>
                                ELSE <<>>))

\* the domain value that stands for "any credible citation"
Sentinel == <<"PLATSFÖRSLAG">>

\* a token made of \w characters only
PureWord(t) == t \notin NonWord /\ t # "18+"

\* variant of CrediblePattern without the "enligt <word>.<tld>" pattern
CrediblePatternNoCitation(text) ==
    LET f == LowerSeq(Flatten(text)) IN
    \/ \E i \in 1..(Len(f) - 1) : f[i] = "rapporterar" /\ WordsIn(f[i + 1]) = 1
    \/ Contains(f, <<"studier", "från">>)
    \/ Contains(f, <<"forskning", "visar">>)

\* any(re.search(pattern, article_lower) for pattern in credible_patterns)
CrediblePattern(text) ==
    LET f == LowerSeq(Flatten(text)) IN
    \/ \E i \in 1..(Len(f) - 3) :
          /\ f[i] = "enligt" /\ PureWord(f[i + 1])
          /\ f[i + 2] = "." /\ f[i + 3] \in {"se", "com", "org"}
    \/ \E i \in 1..(Len(f) - 1) : f[i] = "rapporterar" /\ WordsIn(f[i + 1]) = 1
    \/ Contains(f, <<"studier", "från">>)
    \/ Contains(f, <<"forskning", "visar">>)

RECURSIVE FoundTrust(_, _)
\* found_trust after the loop over required_trust
FoundTrust(required_trust, text) ==
    IF required_trust = <<>> THEN 0
    ELSE LET domain == Head(required_trust).domain IN
         (IF domain = Sentinel
          THEN (IF CrediblePattern(text) THEN 1 ELSE 0)
          ELSE (IF InTextLower(text, LowerSeq(domain)) THEN 1 ELSE 0))
         + FoundTrust(Tail(required_trust), text)

\* variant of validate_trust_signals: full marks when nothing is required
validate_trust_signalsLenient(article_data, plan) ==
    IF ~Truthy(plan) \/ ~Has(plan, "trust") THEN Returns(100, <<>>)
    ELSE LET required_trust == plan.trust
             found_trust    == FoundTrust(required_trust, article_data.full_text)
         IN IF found_trust < 1
            THEN Returns(0, <<Issue("error", "trust", "MISSING_TRUST_SIGNALS")>>)
            ELSE IF found_trust < Len(required_trust)
            THEN Returns(100 - 20 * (Len(required_trust) - found_trust),
                         <<Issue("warning", "trust", "INSUFFICIENT_TRUST_SIGNALS")>>)
            ELSE Returns(100, <<>>)

validate_trust_signals(article_data, plan) ==
    IF ~Truthy(plan) \/ ~Has(plan, "trust") THEN Returns(70, <<>>)
    ELSE LET required_trust == plan.trust
             found_trust    == FoundTrust(required_trust, article_data.full_text)
         IN IF found_trust < 1
            THEN Returns(0, <<Issue("error", "trust", "MISSING_TRUST_SIGNALS")>>)
            ELSE IF found_trust < Len(required_trust)
            THEN Returns(100 - 20 * (Len(required_trust) - found_trust),
                         <<Issue("warning", "trust", "INSUFFICIENT_TRUST_SIGNALS")>>)
            ELSE Returns(100, <<>>)

RECURSIVE ParagraphSentences(_)
ParagraphSentences(paragraphs) ==
    IF paragraphs = <<>> THEN <<>>
    ELSE [k \in 1..Len(Head(paragraphs).sentences) |->
              LowerSeq(Head(paragraphs).sentences[k])]
         \o ParagraphSentences(Tail(paragraphs))

RECURSIVE AllSentences(_)
\* all_sentences: every sentence of every paragraph, lower-cased, in document order
AllSentences(sections) ==
    IF sections = <<>> THEN <<>>
    ELSE ParagraphSentences(Head(sections).paragraphs) \o AllSentences(Tail(sections))

RECURSIVE AnchorSentence(_, _, _, _)
\* anchor_sentence_idx (1-based, 0 for None): assigned at every sentence that
\* contains the anchor text, so the last one stays
AnchorSentence(all_sentences, k, anchor_lower, idx) ==
    IF k > Len(all_sentences) THEN idx
    ELSE AnchorSentence(all_sentences, k + 1, anchor_lower,
                        IF Contains(all_sentences[k], anchor_lower) THEN k ELSE idx)

Max(a, b) == IF a > b THEN a ELSE b

Min(a, b) == IF a < b THEN a ELSE b

RECURSIVE FoundTerms(_, _)
\* len(found_terms): the required terms that occur in window_text
FoundTerms(required_terms, window_text) ==
    IF required_terms = <<>> THEN 0
    ELSE (IF Contains(window_text, LowerSeq(Head(required_terms))) THEN 1 ELSE 0)
         + FoundTerms(Tail(required_terms), window_text)

validate_lsi_terms(article_data, plan) ==
    IF ~Truthy(plan) \/ ~Has(plan, "lsi_near_window") THEN Returns(70, <<>>)
    ELSE IF ~HasPrimary(plan) THEN Raises(PrimaryKeyError(plan))
    ELSE LET lsi_config     == plan.lsi_near_window
             required_terms == lsi_config.terms
             min_count      == lsi_config.policy.min
             max_count      == lsi_config.policy.max
             radius         == lsi_config.policy.radius_sentences
             all_sentences  == AllSentences(article_data.sections)
             idx == AnchorSentence(all_sentences, 1,
                                   LowerSeq(plan.anchor_plan.primary), 0)
         IN IF idx = 0
            THEN Returns(0, <<Issue("error", "lsi", "ANCHOR_NOT_FOUND_FOR_LSI")>>)
            ELSE LET window_text == Flatten(SubSeq(all_sentences,
                                                   Max(1, idx - radius),
                                                   Min(Len(all_sentences), idx + radius)))
                     found == FoundTerms(required_terms, window_text)
                 IN IF found < min_count
                    THEN Returns(0, <<Issue("error", "lsi", "INSUFFICIENT_LSI_TERMS")>>)
                    ELSE IF found > max_count
                    THEN Returns(90, <<Issue("warning", "lsi", "EXCESSIVE_LSI_TERMS")>>)
                    ELSE Returns(100, <<>>)

promo_phrases ==
    << <<"bästa">>, <<"fantastisk">>, <<"otrolig">>,
       <<"missa", "inte">>, <<"unikt", "erbjudande">> >>

max_promo == 3

validate_voice_fit(article_data, plan) ==
    LET promo_count == Cardinality({k \in 1..Len(promo_phrases) :
                           InTextLower(article_data.full_text, promo_phrases[k])})
    IN IF promo_count > max_promo
       THEN Returns(70, <<Issue("warning", "content", "OVERLY_PROMOTIONAL")>>)
       ELSE Returns(90, <<>>)

gambling_disclaimers ==
    { <<"spela", "ansvarsfullt">>, <<"18+">>, <<"spelpaus", ".", "se">>, <<"stodlinjen">> }

finance_disclaimers ==
    { <<"inte", "finansiell", "rådgivning">>, <<"konsultera">>,
      <<"professionell", "rådgivare">> }

health_disclaimers ==
    { <<"inte", "medicinsk", "rådgivning">>, <<"konsultera", "läkare">>,
      <<"professionell", "medicinsk">> }

\* the phrases that satisfy comp_type; none for a type the code does not know
Disclaimers(comp_type) ==
    IF comp_type = "gambling" THEN gambling_disclaimers
    ELSE IF comp_type = "finance" THEN finance_disclaimers
    ELSE IF comp_type = "health" THEN health_disclaimers
    ELSE {}

\* comp_type.upper()
Upper(comp_type) ==
    CASE comp_type = "gambling" -> "GAMBLING"
      [] comp_type = "finance"  -> "FINANCE"
      [] comp_type = "health"   -> "HEALTH"
      [] comp_type = "legal"    -> "LEGAL"
      [] comp_type = "crypto"   -> "CRYPTO"
      [] comp_type = "bonus"    -> "BONUS"

RECURSIVE ComplianceIssues(_, _)
ComplianceIssues(compliance_types, text) ==
    IF compliance_types = <<>> THEN <<>>
    ELSE LET comp_type == Head(compliance_types)
             disclaimer_found ==
                 \E disc \in Disclaimers(comp_type) : InTextLower(text, disc)
         IN (IF disclaimer_found THEN <<>>
             ELSE <<Issue("error", "compliance",
                          "MISSING_" \o Upper(comp_type) \o "_DISCLAIMER")>>)
            \o ComplianceIssues(Tail(compliance_types), text)

\* preflight_matrix.get("guards", {}).get("compliance"), <<>> when absent
RequiredCompliance(plan) ==
    IF Has(plan, "guards") /\ Has(plan.guards, "compliance")
    THEN plan.guards.compliance ELSE <<>>

validate_compliance(article_data, plan) ==
    IF ~Truthy(plan) \/ RequiredCompliance(plan) = <<>> THEN Returns(100, <<>>)
    ELSE LET issues == ComplianceIssues(RequiredCompliance(plan), article_data.full_text)
         IN Returns(IF issues = <<>> THEN 100 ELSE 0, issues)

----------------------------------------------------------------------------
(* QCValidator.validate: one scoring pass *)

Categories == <<"preflight", "draft", "anchor", "trust", "lsi", "fit", "compliance">>

\* variant of weights with those of preflight and anchor exchanged
weightsExchanged ==
    [ preflight |-> 20, draft |-> 15, anchor |-> 25, trust |-> 15,
      lsi |-> 15, fit |-> 5, compliance |-> 5 ]

\* thresholds["weights"], in hundredths
weights ==
    [ preflight |-> 25, draft |-> 15, anchor |-> 20, trust |-> 15,
      lsi |-> 15, fit |-> 5, compliance |-> 5 ]

\* thresholds, in tenths of a point
approved_min == 850

light_edits_min == 700

RECURSIVE WeightedSum(_, _)
\* sum(score * weights[category] for category, score in scores.items()), in hundredths
WeightedSum(scores, k) ==
    IF k > Len(Categories) THEN 0
    ELSE scores[Categories[k]] * weights[Categories[k]] + WeightedSum(scores, k + 1)

\* round(x, 1) of x given in hundredths, result in tenths (ties to even)
Round1(h) ==
    LET q == h \div 10
        r == h % 10
    IN IF r < 5 THEN q
       ELSE IF r > 5 THEN q + 1
       ELSE IF q % 2 = 0 THEN q ELSE q + 1

total_score(scores) == Round1(WeightedSum(scores, 1))

\* variant of StatusOf whose thresholds are exclusive
StatusOfExclusive(total) ==
    IF total > approved_min THEN "APPROVED"
    ELSE IF total > light_edits_min THEN "LIGHT_EDITS"
    ELSE "BLOCKED"

\* the status for a composite score given in tenths
StatusOf(total) ==
    IF total >= approved_min THEN "APPROVED"
    ELSE IF total >= light_edits_min THEN "LIGHT_EDITS"
    ELSE "BLOCKED"

critical_codes == {"ANCHOR_IN_HEADER", "ERR_TRUST_COMPETITOR", "ERR_COMPLIANCE"}

signoff_below == 50

\* variant of requires_human_signoff that looks at the critical codes only
requires_human_signoffCodesOnly(issues, scores) ==
    \E k \in 1..Len(issues) : issues[k].code \in critical_codes

requires_human_signoff(issues, scores) ==
    \/ \E k \in 1..Len(issues) : issues[k].code \in critical_codes
    \/ \E c \in DOMAIN scores : scores[c] < signoff_below

\* lines 62-141 of validate: parse, run the seven rules, combine, decide
ScorePass(article_text, plan) ==
    LET article_data == parse_article(article_text)
        pre == IF Truthy(plan) THEN validate_preflight_compliance(article_data, plan)
               ELSE Returns(50, <<>>)
        dra == validate_draft_quality(article_data)
        anc == validate_anchor_placement(article_data, plan)
        tru == validate_trust_signals(article_data, plan)
        lsi == validate_lsi_terms(article_data, plan)
        fit == validate_voice_fit(article_data, plan)
        com == validate_compliance(article_data, plan)
        all == <<pre, dra, anc, tru, lsi, fit, com>>
        scores == [ preflight |-> pre.score, draft |-> dra.score, anchor |-> anc.score,
                    trust |-> tru.score, lsi |-> lsi.score, fit |-> fit.score,
                    compliance |-> com.score ]
        failed == {k \in 1..Len(all) : all[k].error # ""}
    IN IF failed # {}
       THEN [error |-> all[CHOOSE k \in failed : \A j \in failed : k <= j].error]
       ELSE [ error  |-> "",
              scores |-> scores,
              issues |-> pre.issues \o dra.issues \o anc.issues \o tru.issues
                         \o lsi.issues \o fit.issues \o com.issues,
              total  |-> total_score(scores),
              status |-> StatusOf(total_score(scores)) ]

\* lines 161-179: the result dict of a pass
ResultOf(pass, auto_fixes) ==
    [ status    |-> pass.status,
      score     |-> pass.total,
      breakdown |-> pass.scores,
      issues    |-> pass.issues,
      auto_fixes |-> auto_fixes,
      human_signoff_required |-> requires_human_signoff(pass.issues, pass.scores) ]

\* "\n\n*Spela ansvarsfullt. Läs mer om spelansvar på spelpaus.se. 18+ årsgräns.*"
\* variant of disclaimer: a text that holds none of the gambling phrases
disclaimerUnrecognised ==
    << <<>>, <<"*", "Läs", "mer", "om", "spelansvar", ".", "*">> >>

disclaimer ==
    << <<>>,
       <<"*", "Spela", "ansvarsfullt", ".", "Läs", "mer", "om", "spelansvar", "på",
         "spelpaus", ".", "se", ".", "18+", "årsgräns", ".", "*">> >>

RECURSIVE FixLoopInject(_, _, _, _)
\* variant of FixLoop whose INSUFFICIENT_LSI_TERMS rule writes into the text
FixLoopInject(issues, k, plan, acc) ==
    IF k > Len(issues) THEN acc
    ELSE IF issues[k].code = "MISSING_GAMBLING_DISCLAIMER" /\ Truthy(plan)
         THEN [ fixed_text |-> acc.fixed_text \o disclaimer,
                fixes |-> Append(acc.fixes, [type |-> "add_disclaimer", applied |-> TRUE]) ]
         ELSE IF issues[k].code = "INSUFFICIENT_LSI_TERMS" /\ Truthy(plan)
              THEN FixLoopInject(issues, k + 1, plan,
                                 [ fixed_text |-> Append(acc.fixed_text, <<"enligt">>),
                                   fixes |-> Append(acc.fixes,
                                                    [type |-> "inject_lsi",
                                                     applied |-> TRUE]) ])
              ELSE FixLoopInject(issues, k + 1, plan, acc)

RECURSIVE FixLoop(_, _, _, _)
\* the loop of _attempt_auto_fix over the issues, from index k
FixLoop(issues, k, plan, acc) ==
    IF k > Len(issues) THEN acc
    ELSE IF issues[k].code = "MISSING_GAMBLING_DISCLAIMER" /\ Truthy(plan)
         THEN [ fixed_text |-> acc.fixed_text \o disclaimer,
                fixes |-> Append(acc.fixes, [type |-> "add_disclaimer", applied |-> TRUE]) ]
         ELSE IF issues[k].code = "INSUFFICIENT_LSI_TERMS" /\ Truthy(plan)
              THEN FixLoop(issues, k + 1, plan,
                           [acc EXCEPT !.fixes =
                               Append(@, [type |-> "inject_lsi", applied |-> FALSE])])
              ELSE FixLoop(issues, k + 1, plan, acc)

attempt_auto_fix(article_text, issues, plan) ==
    FixLoop(issues, 1, plan, [fixed_text |-> article_text, fixes |-> <<>>])

max_auto_fixes == 1

----------------------------------------------------------------------------
(* PreflightBuilder.build.  Order strings are sequences of text atoms, so   *)
(* that the substring tests of the builder are Contains on them.  The plan  *)
(* fields that no property reads (query cluster, entities, midpoints,       *)
(* anchor type and backup) are not carried.                                 *)

NoExc == [type |-> "", message |-> ""]

KeyError(key) == [type |-> "KeyError", message |-> "'" \o key \o "'"]

\* order["order_ref"] ... order["topic"], in the order build reads them
RequiredOrderFields ==
    <<"order_ref", "customer_id", "publication_domain", "target_url",
      "anchor_text", "topic">>

MissingOrderFields(order) ==
    {k \in 1..Len(RequiredOrderFields) : ~Has(order, RequiredOrderFields[k])}

\* constraints.get(key, default)
Constraint(order, key, default) ==
    IF Has(order, "constraints") /\ Has(order.constraints, key)
    THEN order.constraints[key] ELSE default

\* the words of the topic that mark an informational intent
informational_words ==
    { <<"guide">>, <<"tips">>, <<"hur">>, <<"vad">>, <<"varför">>, <<"undviker">> }

\* variant of detect_intents without the default
detect_intentsNoDefault(topic, target_url) ==
    (IF \E word \in informational_words : Contains(LowerSeq(topic), word)
     THEN <<"informational">> ELSE <<>>)
    \o (IF Contains(LowerSeq(target_url), <<"casino">>)
           \/ Contains(LowerSeq(target_url), <<"betting">>)
        THEN <<"commercial">> ELSE <<>>)

\* _detect_intents
detect_intents(topic, target_url) ==
    LET topic_lower == LowerSeq(topic)
        intents ==
            (IF \E word \in informational_words : Contains(topic_lower, word)
             THEN <<"informational">> ELSE <<>>)
            \o (IF Contains(LowerSeq(target_url), <<"casino">>)
                   \/ Contains(LowerSeq(target_url), <<"betting">>)
                THEN <<"commercial">> ELSE <<>>)
    IN IF intents = <<>> THEN <<"informational">> ELSE intents

\* random.randint(1, 3) draws from MinParagraph..MaxParagraphDraw
MinParagraph == 1

MaxParagraphDraw == 3

plan_anchor_strategy(anchor_text, paragraph) ==
    [ primary   |-> anchor_text,
      placement |-> [section |-> "mittpunkt", paragraph |-> paragraph, seeded |-> TRUE] ]

topic_terms ==
    << <<"forskning">>, <<"källor">>, <<"arkiv">>, <<"dokument">>,
       <<"historia">>, <<"familj">>, <<"anor">>, <<"kyrkoböcker">> >>

target_terms ==
    << <<"underhållning">>, <<"spel">>, <<"avkoppling">>, <<"fritid">>,
       <<"pausaktivitet">>, <<"digital">>, <<"online">>, <<"nöje">> >>

\* variant of generic_terms: half of the generic list
generic_termsShort ==
    << <<"metod">>, <<"analys">>, <<"tips">>, <<"guide">> >>

generic_terms ==
    << <<"metod">>, <<"analys">>, <<"tips">>, <<"guide">>,
       <<"strategi">>, <<"verktyg">>, <<"process">>, <<"resultat">> >>

\* random.randint(6, 10) draws from MinTerms..MaxTerms
MinTerms == 6

MaxTerms == 10

\* list(set(lsi_terms)): the three lists share no term
UniqueTerms(topic, publication_domain, target_url) ==
    (IF Contains(LowerSeq(topic), <<"släkt", "forskning">>)
        \/ Contains(publication_domain, <<"genealogi">>)
     THEN topic_terms ELSE <<>>)
    \o (IF Contains(LowerSeq(target_url), <<"casino">>) THEN target_terms ELSE <<>>)
    \o generic_terms

\* variant of generate_lsi_terms without the cut to n terms
generate_lsi_termsUncut(topic, publication_domain, target_url, n, rot) ==
    LET unique_terms == UniqueTerms(topic, publication_domain, target_url)
        len == Len(unique_terms)
    IN [k \in 1..len |-> unique_terms[((k - 1 + rot) % len) + 1]]

\* random.shuffle followed by [:n]; the shuffle is a rotation by rot
generate_lsi_terms(topic, publication_domain, target_url, n, rot) ==
    LET unique_terms == UniqueTerms(topic, publication_domain, target_url)
        len == Len(unique_terms)
    IN [k \in 1..Min(n, len) |-> unique_terms[((k - 1 + rot) % len) + 1]]

\* _get_trust_rationale
get_trust_rationale(pattern) ==
    IF pattern \in {"government", "news", "encyclopedia", "academic"}
    THEN pattern ELSE "default"

max_trust_rows == 2

\* registry: whether the query raises, and the rows fetchall returns otherwise
select_trust_sources(topic, publication_domain, conn, registry) ==
    LET rows == IF conn = "open" /\ ~registry.fails THEN registry.rows ELSE <<>>
        from_db == [k \in 1..Min(max_trust_rows, Len(rows)) |->
                       [ domain    |-> rows[k].domain,
                         level     |-> rows[k].trust_level,
                         rationale |-> get_trust_rationale(rows[k].pattern) ]]
    IN IF Len(from_db) < 1
       THEN IF Contains(LowerSeq(topic), <<"släkt">>)
               \/ Contains(publication_domain, <<"genealogi">>)
            THEN << [ domain |-> <<"riksarkivet", ".", "se">>, level |-> "T1",
                      rationale |-> "fallback" ] >>
            ELSE << [ domain |-> Sentinel, level |-> "T2", rationale |-> "fallback" ] >>
       ELSE from_db

min_lsi_terms == 6

\* _validate_matrix; schema_ok is the verdict of the jsonschema check
validate_matrix(matrix, schema_ok) ==
    (IF schema_ok THEN <<>> ELSE <<"Schema validation error">>)
    \o (IF Len(matrix.lsi_near_window.terms) < min_lsi_terms
        THEN <<"Insufficient LSI terms (minimum 6 required)">> ELSE <<>>)
    \o (IF Len(matrix.trust) < 1
        THEN <<"At least one trust source required">> ELSE <<>>)
    \o (IF matrix.anchor_plan.placement.paragraph > max_paragraph
        THEN <<"Anchor placement too far down (max paragraph 5)">> ELSE <<>>)

policy_max == 10

policy_radius == 2

policy_max_repeat == 2

PreflightMatrix(order, conn, env) ==
    [ order_ref          |-> order.order_ref,
      publication_domain |-> order.publication_domain,
      customer_id        |-> order.customer_id,
      target_url         |-> order.target_url,
      intents            |-> detect_intents(order.topic, order.target_url),
      anchor_plan        |-> plan_anchor_strategy(order.anchor_text, env.paragraph),
      lsi_near_window    |->
          [ policy |-> [ min |-> min_lsi_terms, max |-> policy_max,
                         radius_sentences |-> policy_radius,
                         max_repeat |-> policy_max_repeat ],
            terms  |-> generate_lsi_terms(order.topic, order.publication_domain,
                                          order.target_url, env.n_terms, env.rot) ],
      trust              |-> select_trust_sources(order.topic, order.publication_domain,
                                                  conn, env.registry),
      guards             |-> [ no_anchor_in_headers |-> TRUE,
                               competitor_block     |-> TRUE,
                               compliance |-> Constraint(order, "compliance", <<>>) ] ]

\* the exception _generate_writer_prompt lets through, if the render fails
RenderException(env) ==
    IF env.render = "fail" THEN [type |-> "TemplateError", message |-> "render failed"]
    ELSE NoExc

\* the exception _log_preflight_event lets through: the INSERT's is caught,
\* the one of the rollback in its handler is not
LogException(conn, env) ==
    IF conn = "open" /\ env.audit = "fail" /\ env.rollback = "fail"
    THEN [type |-> "DatabaseError", message |-> "rollback failed"]
    ELSE NoExc

\* build's own handler: `except Exception: logger.error(...); raise`
BuildHandler(exc) == exc

\* build(order) under the collaborators' behaviour env: what it raises or returns
build(order, conn, env) ==
    LET missing == MissingOrderFields(order) IN
    IF missing # {}
    THEN [ exc |-> BuildHandler(KeyError(
                       RequiredOrderFields[CHOOSE k \in missing : \A j \in missing : k <= j])),
           value |-> <<>> ]
    ELSE LET matrix == PreflightMatrix(order, conn, env)
             errors == validate_matrix(matrix, env.schema_ok)
         IN IF RenderException(env) # NoExc
            THEN [exc |-> BuildHandler(RenderException(env)), value |-> <<>>]
            ELSE IF LogException(conn, env) # NoExc
            THEN [exc |-> BuildHandler(LogException(conn, env)), value |-> <<>>]
            ELSE [ exc   |-> NoExc,
                   value |-> [ preflight_matrix |-> matrix,
                               writer_prompt    |-> "prompt",
                               validation |-> [ is_valid |-> errors = <<>>,
                                                errors   |-> errors,
                                                warnings |-> <<>> ] ] ]

----------------------------------------------------------------------------
(* server.py: call_tool, and the tasks of the event loop that run it *)

\* variant of Caught: a handler written as `except ValueError`
CaughtValueErrorOnly(exc) == exc.type = "ValueError"

\* `except Exception` of call_tool: every exception raised in the tools is one
Caught(exc) == TRUE

ErrorResult(exc) ==
    [ error |-> [ code    |-> "ERR_TOOL_INTERNAL",
                  message |-> exc.message,
                  hint    |-> "Check logs for details" ] ]

\* what call_tool does with the outcome of the tool it dispatched to
Reply(outcome) ==
    IF outcome.exc = NoExc THEN [raised |-> "", content |-> <<outcome.value>>]
    ELSE IF Caught(outcome.exc)
         THEN [raised |-> "", content |-> <<ErrorResult(outcome.exc)>>]
         ELSE [raised |-> outcome.exc.type, content |-> <<>>]

\* variant of BudgetLeft: the test written with <=
BudgetLeftInclusive(attempts) == attempts <= max_auto_fixes

\* line 144: self.auto_fix_attempts < self.max_auto_fixes
BudgetLeft(attempts) == attempts < max_auto_fixes

\* variant of RescoreAutoFix: the re-validation passes auto_fix on
RescoreAutoFixOn == TRUE

\* line 157: the auto_fix argument of the re-validation
RescoreAutoFix == FALSE

\* variant of AwaitSuspends: every await hands control to the event loop
AwaitSuspendsAlways == TRUE

\* whether `await self._attempt_auto_fix(...)` and `await self.validate(...)`
\* hand control to the event loop: neither coroutine awaits anything that
\* suspends, so the caller runs on without another task being scheduled
AwaitSuspends == FALSE

\* arguments.get(key, default)
Get(arguments, key, default) == IF Has(arguments, key) THEN arguments[key] ELSE default

\* number of disclaimer blocks by which fixed_text is longer than article_text
AppendedBlocks(article_text, fixed_text) ==
    (Len(fixed_text) - Len(article_text)) \div Len(disclaimer)

----------------------------------------------------------------------------
(* Inputs *)

MaxLines == 3       \* every article of at most MaxLines lines over LineSet

MaxRepeat == 11     \* longest article made of one repeated line

MaxRot == 1         \* rotations the shuffle draws from

NumTasks == 2       \* slots for call_tool tasks on the event loop

ProbeSpan == 1000   \* composite scores probed, in tenths

L_head        == <<"##", "Intro">>
L_head_anchor == <<"##", "Buy", "casino", "now">>
L_link        == <<"Besök", "[[", "casino", "]]", ".">>
L_cite        == <<"Enligt", "Riksarkivet", ".", "se", ".">>
L_cite_en     == <<"according", "to", "Riksarkivet", ".", "se", ".">>
L_disc        == <<"Spela", "ansvarsfullt", ".">>

LineSet == {L_head, L_head_anchor, L_link, L_cite, L_cite_en, L_disc}

Repeat(line, n) == [i \in 1..n |-> line]

ShortArticles == UNION {[1..n -> LineSet] : n \in 0..MaxLines}

LongArticles ==
    {Repeat(L_head, n) : n \in (MaxLines + 1)..MaxRepeat}
    \cup {<<L_head>> \o Repeat(L_link, n) : n \in MaxLines..MaxRepeat}

\* "## A\n\np1\n\n## B\n\np2\n\n## C\n\np3"
A_three_sections ==
    << <<"##", "A">>, <<>>, <<"p1">>, <<>>, <<"##", "B">>, <<>>, <<"p2">>, <<>>,
       <<"##", "C">>, <<>>, <<"p3">> >>

\* "## Buy [[X]] now\n\ntext"
A_link_in_header == << <<"##", "Buy", "[[", "casino", "]]", "now">>, <<>>, <<"text">> >>

\* the article of test_auto_fix
A_auto_fix ==
    << <<>>, <<"##", "Test">>, <<>>,
       <<"Besök", "[[", "casino", "]]", "för", "underhållning", ".">>, <<>> >>

\* the article of test_qc_validate_blocked
A_blocked ==
    << <<>>, <<"##", "[[", "Casino", "]]", "-", "En", "guide">>, <<>>,
       <<"Detta", "är", "en", "artikel", "med", "länk", "i", "rubrik", ".">>, <<>> >>

\* a link that is not the anchor
L_other == <<"Läs", "[[", "guide", "]]", ".">>

\* the anchor link in the first paragraph, another link in the sixth
A_two_links == <<L_head, L_link, L_disc, L_disc, L_disc, L_disc, L_other>>

\* one promotional phrase four times
A_repeated_promo ==
    <<L_head, <<"bästa", "val", ".", "bästa", "pris", ".",
                "bästa", "spel", ".", "bästa", "odds", ".">>>>

\* the anchor link in one sentence with eleven of the builder's terms
A_lsi_rich ==
    <<L_head, <<"forskning", "källor", "arkiv", "dokument", "historia", "familj",
                "anor", "kyrkoböcker", "underhållning", "spel", "avkoppling",
                "[[", "casino", "]]", ".">>>>

SampleArticles ==
    {A_three_sections, A_link_in_header, A_auto_fix, A_blocked, A_two_links,
     A_repeated_promo, A_lsi_rich}

\* four of the five promotional phrases
L_promo == <<"bästa", "fantastisk", "otrolig", "missa", "inte">>

\* a header with the lines up to the next header
Blocks ==
    { <<L_head>>, <<L_head, <<>>, L_disc>>, <<L_head_anchor, L_link>>,
      <<L_head, L_cite, L_link>>, <<L_head, L_promo>> }

\* every article of min_sections blocks
SectionedArticles == {Flatten(f) : f \in [1..min_sections -> Blocks]}

Articles == ShortArticles \cup LongArticles \cup SampleArticles \cup SectionedArticles

\* texts as auto-fix leaves them: fixed_text += disclaimer
FixedArticles == {a \o disclaimer : a \in SampleArticles}

NoPlan == <<>>

AnchorPlan ==
    [ primary   |-> <<"casino">>,
      placement |-> [section |-> "mittpunkt", paragraph |-> 1] ]

Riksarkivet == <<"riksarkivet", ".", "se">>

PlanSentinel ==
    [ anchor_plan |-> AnchorPlan,
      trust       |-> <<[domain |-> Sentinel]>>,
      guards      |-> [compliance |-> <<"gambling">>] ]

PlanFull ==
    [ anchor_plan     |-> AnchorPlan,
      word_count      |-> 6,
      trust           |-> <<[domain |-> Sentinel], [domain |-> Riksarkivet]>>,
      lsi_near_window |->
          [ terms  |-> << <<"enligt">>, <<"according">> >>,
            policy |-> [min |-> 1, max |-> 1, radius_sentences |-> 1] ],
      guards          |-> [compliance |-> <<"gambling", "finance", "gambling">>] ]

PlanBare == [anchor_plan |-> AnchorPlan]

\* the `"trust": []` of test_qc_validate_compliance, with a placement
PlanEmptyTrust == [anchor_plan |-> AnchorPlan, trust |-> <<>>]

\* the plan of test_auto_fix and test_qc_validate_compliance: no placement
PlanNoPlacement ==
    [ anchor_plan     |-> [primary |-> <<"casino">>],
      guards          |-> [compliance |-> <<"gambling">>],
      lsi_near_window |->
          [ terms  |-> <<>>,
            policy |-> [min |-> 6, max |-> 10, radius_sentences |-> 2] ],
      trust           |-> <<>> ]

PlanNoAnchor == [guards |-> [compliance |-> <<"gambling">>]]

\* compliance categories the rule has no disclaimer list for: one of the
\* tool schema's enum, one outside it
PlanOtherCompliance ==
    [ anchor_plan |-> AnchorPlan,
      guards      |-> [compliance |-> <<"legal", "bonus">>] ]

Plans ==
    {NoPlan, PlanSentinel, PlanFull, PlanBare, PlanNoPlacement, PlanNoAnchor,
     PlanOtherCompliance}

\* the order of test_preflight_build asking for a short article
O_short ==
    [ order_ref          |-> "ref-6",
      customer_id        |-> "cust_001",
      publication_domain |-> <<"genline", ".", "se">>,
      target_url         |-> <<"https://", "happy", "casino", ".", "se", "/", "casino">>,
      anchor_text        |-> <<"casino">>,
      topic              |-> <<"Så", "undviker", "du", "falska", "ledtrådar", "i",
                               "släkt", "forskning", "en">>,
      constraints        |-> [word_count |-> 13] ]

\* one trust row of the database
TrustRow == [domain |-> <<"scb", ".", "se">>, trust_level |-> "T1", pattern |-> "government"]

\* what the collaborators do while the short order is built
BuiltEnvs ==
    [ registry : {[fails |-> TRUE, rows |-> <<>>], [fails |-> FALSE, rows |-> <<TrustRow>>]},
      schema_ok : {TRUE}, render : {"ok"}, audit : {"ok"}, rollback : {"ok"},
      paragraph : {MinParagraph}, n_terms : {MinTerms, MaxTerms}, rot : {0} ]

\* result["preflight_matrix"] of build(O_short), handed on to validate
BuiltPlans == {build(O_short, "open", e).value.preflight_matrix : e \in BuiltEnvs}

ValidateRequest(article, plan, auto_fix) ==
    [ name      |-> "qc.validate",
      arguments |-> [article_text |-> article, preflight_matrix |-> plan,
                     auto_fix |-> auto_fix] ]

\* requests that leave out optional or required arguments
PartialValidateRequests ==
    { [name |-> "qc.validate", arguments |-> <<>>],
      [name |-> "qc.validate", arguments |-> [article_text |-> A_three_sections]] }

WideValidateRequests ==
    {ValidateRequest(a, p, f) : a \in Articles, p \in Plans, f \in BOOLEAN}
    \cup {ValidateRequest(a, p, f) : a \in SampleArticles,
                                      p \in BuiltPlans \cup {PlanEmptyTrust},
                                      f \in BOOLEAN}
    \cup {ValidateRequest(a, p, TRUE) : a \in FixedArticles, p \in Plans}
    \cup PartialValidateRequests

FreeArticles ==
    {A_auto_fix, A_link_in_header, <<L_head, L_link, L_disc>>, <<L_head_anchor, L_cite>>}

FreePlans == {NoPlan, PlanSentinel, PlanFull, PlanNoPlacement}

FreeValidateRequests ==
    {ValidateRequest(a, p, f) : a \in FreeArticles, p \in FreePlans, f \in BOOLEAN}
    \cup PartialValidateRequests

\* the order of test_preflight_build
O_test ==
    [ order_ref          |-> "ref-1",
      customer_id        |-> "cust_001",
      publication_domain |-> <<"genline", ".", "se">>,
      target_url         |-> <<"https://", "happy", "casino", ".", "se", "/", "casino">>,
      anchor_text        |-> <<"casino">>,
      topic              |-> <<"Så", "undviker", "du", "falska", "ledtrådar", "i",
                               "släkt", "forskning", "en">>,
      constraints        |-> [ word_count |-> 800, tone |-> "informativ",
                               compliance |-> <<"gambling">> ] ]

O_plain ==
    [ order_ref          |-> "ref-2",
      customer_id        |-> "cust_002",
      publication_domain |-> <<"example", ".", "com">>,
      target_url         |-> <<"https://", "example", ".", "org">>,
      anchor_text        |-> <<"example">>,
      topic              |-> <<"Guide", "till", "hemma", "kontor">> ]

O_no_topic ==
    [ order_ref          |-> "ref-3",
      customer_id        |-> "cust_003",
      publication_domain |-> <<"example", ".", "com">>,
      target_url         |-> <<"https://", "example", ".", "org">>,
      anchor_text        |-> <<"example">> ]

\* no trigger word in the topic, a casino as the target
O_shop ==
    [ order_ref          |-> "ref-4",
      customer_id        |-> "cust_004",
      publication_domain |-> <<"example", ".", "com">>,
      target_url         |-> <<"https://", "Casino", ".", "se">>,
      anchor_text        |-> <<"casino">>,
      topic              |-> <<"nya", "produkter">> ]

\* no trigger word in the topic, no trigger in the target
O_quiet ==
    [ order_ref          |-> "ref-5",
      customer_id        |-> "cust_005",
      publication_domain |-> <<"example", ".", "com">>,
      target_url         |-> <<"https://", "example", ".", "org">>,
      anchor_text        |-> <<"example">>,
      topic              |-> <<"nya", "produkter">> ]

Row(domain, level, pattern) == [domain |-> domain, trust_level |-> level, pattern |-> pattern]

Rows3 ==
    << Row(<<"scb", ".", "se">>, "T1", "government"),
       Row(<<"svt", ".", "se">>, "T2", "news"),
       Row(<<"ne", ".", "se">>, "T2", "encyclopedia") >>

Registry(fails, rows) == [fails |-> fails, rows |-> rows]

Registries ==
    { Registry(TRUE, <<>>), Registry(FALSE, <<>>),
      Registry(FALSE, SubSeq(Rows3, 1, 1)), Registry(FALSE, Rows3) }

WideEnvs ==
    [ registry : Registries, schema_ok : BOOLEAN,
      render : {"ok", "fail"}, audit : {"ok", "fail"}, rollback : {"ok", "fail"},
      paragraph : MinParagraph..MaxParagraphDraw, n_terms : MinTerms..MaxTerms,
      rot : 0..MaxRot ]

FreeEnvs ==
    [ registry : {Registry(TRUE, <<>>), Registry(FALSE, Rows3)}, schema_ok : {TRUE},
      render : {"ok", "fail"}, audit : {"ok", "fail"}, rollback : {"ok", "fail"},
      paragraph : {MinParagraph}, n_terms : {MinTerms}, rot : {0} ]

BuildRequest(arguments, env) ==
    [name |-> "preflight.build", arguments |-> arguments, env |-> env]

BuildRequests(envs) ==
    {BuildRequest([order |-> o], e) : o \in {O_test, O_plain, O_shop, O_quiet}, e \in envs}
    \cup {BuildRequest(a, CHOOSE e \in FreeEnvs : e.render = "ok" /\ e.audit = "ok"
                                                  /\ e.rollback = "ok" /\ ~e.registry.fails) :
              a \in {<<>>, [order |-> <<>>], [order |-> O_no_topic]}}

UnknownRequests == {[name |-> "invalid.tool", arguments |-> <<>>]}

WideRequests == WideValidateRequests \cup BuildRequests(WideEnvs) \cup UnknownRequests

FreeRequests == FreeValidateRequests \cup BuildRequests(FreeEnvs) \cup UnknownRequests

\* the requests a call may carry: the one under test, or any free request
Requests == IF payload = <<>> THEN FreeRequests ELSE {payload}

----------------------------------------------------------------------------
(* The state machine *)

Tasks == 1..NumTasks

Idle == [pc |-> "idle"]

\* a new call_tool task takes the first free slot
FreeSlot(c) == task[c].pc = "idle" /\ \A d \in 1..(c - 1) : task[d].pc # "idle"

\* call_tool returns: the reply goes out, the task ends, the loop is free
Finish(c, reply, history) ==
    /\ response' = reply @@ history
    /\ task' = [task EXCEPT ![c] = Idle]
    /\ running' = 0

\* what the model remembers of a validate call next to its reply
ValidateHistory(frame) ==
    [ name          |-> "qc.validate",
      arguments     |-> frame.arguments,
      passes        |-> frame.passes,
      scored_text   |-> frame.article_text,
      budget_before |-> frame.budget_before ]

\* validate from its first line to the await of line 145 or to its return:
\* one scoring pass over frame.article_text
RunPass(c, frame) ==
    LET pass == ScorePass(frame.article_text, frame.plan)
        done == [frame EXCEPT !.passes = @ + 1]
    IN IF pass.error # ""
       THEN /\ Finish(c, Reply([exc |-> KeyError(pass.error), value |-> <<>>]),
                      ValidateHistory(done))
            /\ UNCHANGED <<auto_fix_attempts, appended>>
       ELSE IF frame.auto_fix /\ BudgetLeft(auto_fix_attempts)
       THEN /\ task' = [task EXCEPT ![c] = [done EXCEPT !.pc = "fix", !.pass = pass]]
            /\ running' = IF AwaitSuspends THEN 0 ELSE c
            /\ response' = <<>>
            /\ UNCHANGED <<auto_fix_attempts, appended>>
       ELSE /\ Finish(c, Reply([exc |-> NoExc, value |-> ResultOf(pass, done.auto_fixes)]),
                      ValidateHistory(done))
            /\ UNCHANGED <<auto_fix_attempts, appended>>

\* call_tool("qc.validate", arguments) up to the first await of validate
CallValidate(c) ==
    /\ running = 0
    /\ FreeSlot(c)
    /\ \E req \in Requests :
          /\ req.name = "qc.validate"
          /\ IF ~Has(req.arguments, "article_text")
             THEN /\ Finish(c, Reply([exc |-> KeyError("article_text"), value |-> <<>>]),
                            [name |-> req.name, arguments |-> req.arguments, passes |-> 0,
                             scored_text |-> <<>>, budget_before |-> auto_fix_attempts])
                  /\ UNCHANGED <<auto_fix_attempts, appended>>
             ELSE RunPass(c, [ pc            |-> "score",
                               arguments     |-> req.arguments,
                               article_text  |-> req.arguments.article_text,
                               plan          |-> Get(req.arguments, "preflight_matrix", NoPlan),
                               auto_fix      |-> Get(req.arguments, "auto_fix", FALSE),
                               auto_fixes    |-> <<>>,
                               pass          |-> <<>>,
                               passes        |-> 0,
                               budget_before |-> auto_fix_attempts ])
    /\ UNCHANGED <<db_conn, payload, probe>>

\* variant of RescoreAutoFixes: the fix records carried into the re-validation
RescoreAutoFixesMerged(fixes) == fixes

\* auto_fixes of the re-validation: the recursive call starts from its own
\* `auto_fixes = []`; the caller's list, extended with the fixes, is dropped
RescoreAutoFixes(fixes) == <<>>

\* lines 145-159: _attempt_auto_fix returns; the budget is spent and the
\* re-validation called if the text changed, the first result returned if not
ValidateFix(c) ==
    /\ running \in {0, c}
    /\ task[c].pc = "fix"
    /\ LET frame == task[c]
           fix   == attempt_auto_fix(frame.article_text, frame.pass.issues, frame.plan)
       IN IF fix.fixed_text # frame.article_text
          THEN /\ auto_fix_attempts' = auto_fix_attempts + 1
               /\ appended' = appended + AppendedBlocks(frame.article_text, fix.fixed_text)
               /\ task' = [task EXCEPT ![c] =
                              [frame EXCEPT !.pc = "rescore",
                                            !.article_text = fix.fixed_text,
                                            !.auto_fix = RescoreAutoFix,
                                            !.auto_fixes = RescoreAutoFixes(fix.fixes),
                                            !.pass = <<>>]]
               /\ running' = IF AwaitSuspends THEN 0 ELSE c
               /\ UNCHANGED response
          ELSE /\ Finish(c, Reply([exc |-> NoExc,
                                   value |-> ResultOf(frame.pass, frame.auto_fixes)]),
                         ValidateHistory(frame))
               /\ UNCHANGED <<auto_fix_attempts, appended>>
    /\ UNCHANGED <<db_conn, payload, probe>>

\* the re-validation of line 154 runs; its result is the call's result
ValidateRescore(c) ==
    /\ running \in {0, c}
    /\ task[c].pc = "rescore"
    /\ RunPass(c, task[c])
    /\ UNCHANGED <<db_conn, payload, probe>>

\* call_tool("preflight.build", arguments); nothing in build suspends
CallBuild(c) ==
    /\ running = 0
    /\ FreeSlot(c)
    /\ \E req \in Requests :
          /\ req.name = "preflight.build"
          /\ Finish(c,
                    Reply(IF Has(req.arguments, "order")
                          THEN build(req.arguments.order, db_conn, req.env)
                          ELSE [exc |-> KeyError("order"), value |-> <<>>]),
                    [name |-> req.name, arguments |-> req.arguments, env |-> req.env,
                     conn |-> db_conn])
    /\ UNCHANGED <<auto_fix_attempts, appended, db_conn, payload, probe>>

\* call_tool with a name it does not know
CallUnknown(c) ==
    /\ running = 0
    /\ FreeSlot(c)
    /\ \E req \in Requests :
          /\ req.name \notin {"preflight.build", "qc.validate"}
          /\ Finish(c,
                    Reply([exc |-> [type |-> "ValueError",
                                    message |-> "Unknown tool: " \o req.name],
                           value |-> <<>>]),
                    [name |-> req.name, arguments |-> req.arguments])
    /\ UNCHANGED <<auto_fix_attempts, appended, db_conn, payload, probe>>

\* main(): the builder is connected when DATABASE_URL is set and connect works
Connections == {"none", "open"}

InitServer ==
    /\ auto_fix_attempts = 0
    /\ db_conn \in Connections
    /\ task = [c \in Tasks |-> Idle]
    /\ running = 0
    /\ response = <<>>
    /\ appended = 0
    /\ probe = <<>>

Init == InitServer /\ payload = <<>>

InitInputs == InitServer /\ payload \in WideRequests

Next ==
    \E c \in Tasks :
        \/ CallValidate(c)
        \/ ValidateFix(c)
        \/ ValidateRescore(c)
        \/ CallBuild(c)
        \/ CallUnknown(c)

\* the server under any sequence of free requests
Spec == Init /\ [][Next]_vars

\* the server under one request drawn from the wide input sets
SpecInputs == InitInputs /\ [][Next]_vars

----------------------------------------------------------------------------
(* The status decision on its own *)

ProbeScores == (0 - ProbeSpan)..ProbeSpan

Probe ==
    /\ \E t \in ProbeScores : probe' = [score |-> t, status |-> StatusOf(t)]
    /\ UNCHANGED <<auto_fix_attempts, db_conn, task, running, response, appended, payload>>

InitStatus == InitServer /\ db_conn = "none" /\ payload = <<>>

NextStatus == Probe

SpecStatus == InitStatus /\ [][NextStatus]_vars

----------------------------------------------------------------------------
(* Properties.  `response` holds the latest reply of call_tool together     *)
(* with the call it answers.                                                *)

Tools == {"preflight.build", "qc.validate"}

\* the latest reply answers a call of the tool `name`
Replied(name) == response # <<>> /\ response.name = name

\* the reply's single content item
Item == response.content[1]

\* the reply carries a result dict, not an error object
HasResult ==
    response.raised = "" /\ Len(response.content) = 1 /\ ~Has(Item, "error")

\* the reply of a validate call that was given an article
ValidateReplied == Replied("qc.validate") /\ Has(response.arguments, "article_text")

Article == response.arguments.article_text

Plan == Get(response.arguments, "preflight_matrix", NoPlan)

AutoFix == Get(response.arguments, "auto_fix", FALSE)

\* validate(article_text, plan, auto_fix=False): one pass, raised or returned
PlainValidate(article_text, plan) ==
    LET pass == ScorePass(article_text, plan) IN
    IF pass.error # "" THEN [exc |-> KeyError(pass.error), value |-> <<>>]
    ELSE [exc |-> NoExc, value |-> ResultOf(pass, <<>>)]

\* the issues of one category, in order
IssuesOf(issues, category) == SelectSeq(issues, LAMBDA i : i.category = category)

\* how many issues carry the code
CountCode(issues, code) == Cardinality({k \in 1..Len(issues) : issues[k].code = code})

----------------------------------------------------------------------------
\* C1: over any sequence of validate calls on the one validator, auto-fix
\* appends the disclaimer at most once in total and at most once within a
\* call; a call with auto_fix=true made after the budget is spent scores the
\* text it was given and returns what the same call with auto_fix=false returns.
C1_OneDisclaimerEver ==
    /\ appended <= 1
    /\ ValidateReplied =>
          /\ response.scored_text \in {Article, Article \o disclaimer}
          /\ (AutoFix /\ response.budget_before >= max_auto_fixes) =>
                /\ response.scored_text = Article
                /\ response.raised = Reply(PlainValidate(Article, Plan)).raised
                /\ response.content = Reply(PlainValidate(Article, Plan)).content

\* a call with auto_fix=true after the budget was spent, on a text with two
\* disclaimer issues that a fix would have answered
C1_SpentBudgetCall ==
    /\ ValidateReplied /\ AutoFix /\ HasResult
    /\ response.budget_before = max_auto_fixes
    /\ appended = 1
    /\ CountCode(Item.issues, "MISSING_GAMBLING_DISCLAIMER") >= 2

\* the section titles of the article the call was given
Titles == LET sections == parse_article(Article).sections
          IN {sections[k].title : k \in 1..Len(sections)}

\* a validate result for a plan whose primary anchor text occurs in a title
AnchorInTitle ==
    /\ ValidateReplied /\ HasResult
    /\ Truthy(Plan) /\ HasPrimary(Plan)
    /\ \E title \in Titles : Contains(title, Plan.anchor_plan.primary)

\* no [[link]] of the article has the primary anchor as its text
NoAnchorLink ==
    LET links == extract_links(Article)
    IN \A k \in 1..Len(links) : links[k].text # Plan.anchor_plan.primary

\* C2 as stated: with the primary anchor text in a section title, the anchor
\* score is 0 and the only anchor-category issue of the result is
\* ANCHOR_IN_HEADER.
C2_OnlyAnchorInHeader ==
    AnchorInTitle =>
        /\ Item.breakdown.anchor = 0
        /\ IssuesOf(Item.issues, "anchor") = <<Issue("error", "anchor", "ANCHOR_IN_HEADER")>>

\* C2, amended: with the primary anchor text in a section title, the anchor
\* score is 0, the placement rule contributes ANCHOR_IN_HEADER and nothing
\* else, and the one other anchor-category issue the result can hold is the
\* plan-compliance rule's MISSING_PRIMARY_ANCHOR, present exactly when no link
\* of the article has the anchor as its text.
C2_AnchorInHeaderAndMissing ==
    AnchorInTitle =>
        /\ Item.breakdown.anchor = 0
        /\ IssuesOf(Item.issues, "anchor") =
              (IF NoAnchorLink THEN <<Issue("error", "anchor", "MISSING_PRIMARY_ANCHOR")>>
               ELSE <<>>)
              \o <<Issue("error", "anchor", "ANCHOR_IN_HEADER")>>

\* the anchor stands in a title as plain text and is linked nowhere
C2_TitleAnchorUnlinked ==
    /\ AnchorInTitle /\ NoAnchorLink
    /\ CountCode(Item.issues, "ANCHOR_IN_HEADER") = 1
    /\ CountCode(Item.issues, "MISSING_PRIMARY_ANCHOR") = 1

\* C3: the composite score is the sum of category score x weight over the
\* seven categories, rounded to one decimal, with weights 0.25, 0.15, 0.20,
\* 0.15, 0.15, 0.05, 0.05 that sum to 1.0 (scores in tenths, sums in hundredths).
C3_CompositeIsWeightedSum ==
    /\ weights.preflight + weights.draft + weights.anchor + weights.trust
          + weights.lsi + weights.fit + weights.compliance = 100
    /\ (ValidateReplied /\ HasResult) =>
          LET b == Item.breakdown
              h == 25 * b.preflight + 15 * b.draft + 20 * b.anchor + 15 * b.trust
                   + 15 * b.lsi + 5 * b.fit + 5 * b.compliance
          IN /\ DOMAIN b = {"preflight", "draft", "anchor", "trust", "lsi", "fit",
                            "compliance"}
             /\ 10 * Item.score - h \in -5..5
             /\ (h % 10 = 0 => 10 * Item.score = h)

\* a result whose composite has a decimal (x.5) and whose anchor and preflight
\* scores differ
C3_DecimalComposite ==
    /\ ValidateReplied /\ HasResult
    /\ Item.score % 10 = 5
    /\ Item.breakdown.anchor # Item.breakdown.preflight

\* C4: the status is a function of the composite alone: APPROVED from 85.0,
\* LIGHT_EDITS from 70.0 and below 85.0, BLOCKED below 70.0; 85.0 is APPROVED,
\* 84.9 LIGHT_EDITS, 70.0 LIGHT_EDITS and 69.9 BLOCKED.
C4_StatusBoundaries ==
    probe # <<>> =>
        /\ probe.status = "APPROVED" <=> probe.score >= 850
        /\ probe.status = "LIGHT_EDITS" <=> (probe.score >= 700 /\ probe.score < 850)
        /\ probe.status = "BLOCKED" <=> probe.score < 700
        /\ probe.score = 850 => probe.status = "APPROVED"
        /\ probe.score = 849 => probe.status = "LIGHT_EDITS"
        /\ probe.score = 700 => probe.status = "LIGHT_EDITS"
        /\ probe.score = 699 => probe.status = "BLOCKED"

\* the composite 70.0, on the lower boundary
C4_AtSeventy == probe # <<>> /\ probe.score = 700 /\ probe.status = "LIGHT_EDITS"

\* C5 as stated: in every validation result each of the seven category scores
\* and the composite lie in [0, 100].
C5_ScoresInRange ==
    (ValidateReplied /\ HasResult) =>
        /\ \A c \in DOMAIN Item.breakdown : Item.breakdown[c] \in 0..100
        /\ Item.score \in 0..1000

\* eleven empty sections: the draft score has left the range
C5_DraftBelowZero ==
    /\ ValidateReplied /\ HasResult
    /\ Item.breakdown.draft < 0

\* C6: with several validate calls with auto_fix=true in flight on the shared
\* validator, the counter never exceeds max_auto_fixes and at most one call in
\* total gets a fix: a call that has passed the budget test acts on it before
\* any other call runs, and every call after it is left without a fix.
C6_BudgetNeverExceeded ==
    /\ auto_fix_attempts \in 0..max_auto_fixes
    /\ appended = auto_fix_attempts
    /\ \A c \in Tasks :
          /\ task[c].pc = "fix" => auto_fix_attempts < max_auto_fixes
          /\ task[c].pc # "idle" => \A d \in Tasks \ {c} : task[d].pc = "idle"
    /\ (ValidateReplied /\ AutoFix /\ response.budget_before = max_auto_fixes) =>
          response.scored_text = Article

\* a call left without its fix: it asked for one after another call had spent
\* the budget, and its result still lacks the disclaimer
C6_StarvedCall ==
    /\ ValidateReplied /\ AutoFix /\ HasResult
    /\ response.budget_before = max_auto_fixes
    /\ auto_fix_attempts = max_auto_fixes
    /\ response.passes = 1
    /\ CountCode(Item.issues, "MISSING_GAMBLING_DISCLAIMER") = 1

\* C7: every validate call returns after at most two scoring passes; the
\* re-score after a fix runs with auto-fix off, so it applies no further fix
\* and starts no further re-score, whatever issues remain: a call goes from
\* the first pass to the fix or to its return, from the fix to the re-score or
\* to its return, and from the re-score to its return only.
C7_AtMostTwoPasses ==
    /\ [](\A c \in Tasks :
             /\ task[c].pc # "idle" => running = c
             /\ task[c].pc = "fix" => task[c].passes = 1
             /\ task[c].pc = "rescore" => (task[c].passes = 1 /\ ~task[c].auto_fix))
    /\ [](Replied("qc.validate") => response.passes <= 2)
    /\ [][\A c \in Tasks :
             /\ task[c].pc = "idle" => task'[c].pc \in {"idle", "fix"}
             /\ task[c].pc = "fix" => task'[c].pc \in {"rescore", "idle"}
             /\ task[c].pc = "rescore" =>
                   /\ task'[c].pc = "idle"
                   /\ auto_fix_attempts' = auto_fix_attempts
                   /\ response'.scored_text = task[c].article_text]_vars

\* a call that was fixed and re-scored, with issues left in the fixed text
C7_RescoredWithIssuesLeft ==
    /\ ValidateReplied /\ HasResult
    /\ response.passes = 2
    /\ response.scored_text = Article \o disclaimer
    /\ Item.issues # <<>>

\* the trust list of the plan is the "any credible citation" sentinel alone
SentinelOnly ==
    /\ Truthy(Plan) /\ Has(Plan, "trust") /\ Plan.trust # <<>>
    /\ \A k \in 1..Len(Plan.trust) : Plan.trust[k].domain = Sentinel

\* C8 as stated: with the sentinel as the trust requirement, a text that
\* contains "according to Riksarkivet.se" gets trust score 100 and no trust issue.
C8_AccordingTo ==
    ( /\ ValidateReplied /\ HasResult /\ SentinelOnly
      /\ Contains(Flatten(Article), <<"according", "to", "Riksarkivet", ".", "se">>) )
    => /\ Item.breakdown.trust = 100
       /\ IssuesOf(Item.issues, "trust") = <<>>

\* C8, amended: with the sentinel as the only trust requirement, a text that
\* contains "enligt Riksarkivet.se" in any letter case gets trust score 100
\* and no trust issue.
C8_Enligt ==
    ( /\ ValidateReplied /\ HasResult /\ SentinelOnly
      /\ InTextLower(Article, <<"enligt", "riksarkivet", ".", "se">>) )
    => /\ Item.breakdown.trust = 100
       /\ IssuesOf(Item.issues, "trust") = <<>>

\* a sentinel plan and a text that cites "Enligt Riksarkivet.se"
C8_SwedishCitation ==
    /\ ValidateReplied /\ HasResult /\ SentinelOnly
    /\ Contains(Flatten(Article), <<"Enligt", "Riksarkivet", ".", "se">>)
    /\ Item.breakdown.trust = 100

\* the call that was answered is one the tools cannot serve: an unknown tool,
\* no order, an order without a required field, no article, or a plan without
\* a field the rules read
BadRequest ==
    \/ response.name \notin Tools
    \/ /\ response.name = "preflight.build"
       /\ \/ ~Has(response.arguments, "order")
          \/ MissingOrderFields(response.arguments.order) # {}
    \/ /\ response.name = "qc.validate"
       /\ \/ ~Has(response.arguments, "article_text")
          \/ Truthy(Plan) /\ (~HasPrimary(Plan) \/ ~Has(Plan.anchor_plan, "placement"))

CollaboratorFailed ==
    /\ Replied("preflight.build")
    /\ Has(response.arguments, "order")
    /\ MissingOrderFields(response.arguments.order) = {}
    /\ \/ response.conn = "open" /\ response.env.registry.fails
       \/ response.conn = "open" /\ response.env.audit = "fail"
       \/ response.env.render = "fail"

\* C10 as stated: a failure of the registry query, of the audit-log write or
\* of the template render during build is caught and degrades to a fallback:
\* build still returns a result that holds the plan, never an error.
C10_CollaboratorFailureDegrades ==
    CollaboratorFailed => (HasResult /\ Has(Item, "preflight_matrix"))

\* a build call that returned a plan
BuildReturned == Replied("preflight.build") /\ HasResult /\ Has(Item, "preflight_matrix")

Matrix == Item.preflight_matrix

\* the elements of the sequence are pairwise distinct
Distinct(seq) == \A i \in 1..Len(seq) : \A j \in 1..Len(seq) : seq[i] = seq[j] => i = j

\* C11: every plan that build returns has between 6 and 10 pairwise distinct
\* topical terms and 1 or 2 trust sources, whether the registry is not
\* connected, fails or returns no rows; the business-rule errors about too few
\* terms and about a missing trust source are never reported for it.
C11_TermsAndTrustPresent ==
    BuildReturned =>
        /\ Len(Matrix.lsi_near_window.terms) \in 6..10
        /\ Distinct(Matrix.lsi_near_window.terms)
        /\ Len(Matrix.trust) \in 1..2
        /\ \A k \in 1..Len(Item.validation.errors) :
              Item.validation.errors[k] \notin
                  { "Insufficient LSI terms (minimum 6 required)",
                    "At least one trust source required" }

\* a plan built for an order that triggers neither the topic nor the target
\* terms, while the registry query fails: shortest term list, fallback source
C11_FallbackPlan ==
    /\ BuildReturned
    /\ response.conn = "open" /\ response.env.registry.fails
    /\ response.arguments.order = O_plain
    /\ Len(Matrix.lsi_near_window.terms) = 6
    /\ Len(Matrix.trust) = 1 /\ Matrix.trust[1].domain = Sentinel

\* some section title of the article holds a [[...]] link
LinkInTitle == \E title \in Titles : extract_links(<<title>>) # <<>>

\* C12 as stated: an article with a [[...]] link in a section header,
\* validated without a plan, gets status BLOCKED and an issue with code
\* ANCHOR_IN_HEADER.
C12_HeaderLinkBlocked ==
    (ValidateReplied /\ HasResult /\ ~Truthy(Plan) /\ LinkInTitle) =>
        /\ Item.status = "BLOCKED"
        /\ CountCode(Item.issues, "ANCHOR_IN_HEADER") >= 1

\* the codes written out in the rules, with the disclaimer codes of the five
\* compliance categories of the tool schema
KnownCodes ==
    { "MISSING_PRIMARY_ANCHOR", "WORD_COUNT_MISMATCH", "INSUFFICIENT_SECTIONS",
      "EMPTY_SECTION", "ANCHOR_IN_HEADER", "ANCHOR_NOT_FOUND", "ANCHOR_PLACEMENT_WRONG",
      "ANCHOR_TOO_DEEP", "MISSING_TRUST_SIGNALS", "INSUFFICIENT_TRUST_SIGNALS",
      "ANCHOR_NOT_FOUND_FOR_LSI", "INSUFFICIENT_LSI_TERMS", "EXCESSIVE_LSI_TERMS",
      "OVERLY_PROMOTIONAL", "MISSING_GAMBLING_DISCLAIMER", "MISSING_FINANCE_DISCLAIMER",
      "MISSING_HEALTH_DISCLAIMER", "MISSING_LEGAL_DISCLAIMER", "MISSING_CRYPTO_DISCLAIMER" }

\* C13 as stated: every issue code of every validation result belongs to one
\* fixed vocabulary, whatever the article and whatever the plan holds, its list
\* of compliance categories included.
C13_ClosedVocabulary ==
    (ValidateReplied /\ HasResult) =>
        \A k \in 1..Len(Item.issues) : Item.issues[k].code \in KnownCodes

\* the indices of the '##' header lines of the article
HeaderLines == {i \in 1..Len(Article) : IsHeader(Article[i])}

\* the header line i is followed by a non-blank line before the next header
HasBody(i) ==
    \E j \in (i + 1)..Len(Article) :
        /\ Article[j] # <<>>
        /\ \A k \in (i + 1)..j : k \notin HeaderLines

\* how many of the promotional phrases the article holds
PromoCount ==
    Cardinality({k \in 1..Len(promo_phrases) : InTextLower(Article, promo_phrases[k])})

\* C14: with no plan, an article of three or more '##' sections, each with at
\* least one non-blank paragraph line, holding at most 3 of the promotional
\* phrases, parses to as many sections as it has header lines, gets draft score
\* 100 and an empty issue list.
C14_CleanSections ==
    ( /\ ValidateReplied /\ HasResult /\ ~Truthy(Plan)
      /\ Cardinality(HeaderLines) >= 3
      /\ \A i \in HeaderLines : HasBody(i)
      /\ PromoCount <= 3 )
    => /\ Len(parse_article(Article).sections) = Cardinality(HeaderLines)
       /\ Item.breakdown.draft = 100
       /\ Item.issues = <<>>

\* "## A\n\np1\n\n## B\n\np2\n\n## C\n\np3" validated without a plan
C14_ThreeSections ==
    /\ ValidateReplied /\ HasResult /\ ~Truthy(Plan)
    /\ Article = A_three_sections
    /\ Len(parse_article(Article).sections) = 3
    /\ Item.breakdown.draft = 100
    /\ Item.issues = <<>>

\* the order of the build call that was answered
Order == response.arguments.order

\* C15: when the topic of the order contains "guide" in any letter case, the
\* intents of the built plan contain "informational" whatever the target URL
\* is; the intents are never empty, and they are ["informational"] when
\* neither the topic nor the target triggers an intent.
C15_IntentsNeverEmpty ==
    BuildReturned =>
        LET topic  == LowerSeq(Order.topic)
            target == LowerSeq(Order.target_url)
            has(seq, w) == \E i \in 1..Len(seq) : seq[i] = w
        IN /\ Matrix.intents # <<>>
           /\ has(topic, "guide") => has(Matrix.intents, "informational")
           /\ ( /\ \A w \in {"guide", "tips", "hur", "vad", "varför", "undviker"} :
                      ~has(topic, w)
                /\ ~has(target, "casino") /\ ~has(target, "betting") )
              => Matrix.intents = <<"informational">>

\* a topic that begins with "Guide", capitalised
C15_GuideTopic ==
    /\ BuildReturned
    /\ Head(Order.topic) = "Guide"
    /\ Matrix.intents = <<"informational">>

\* the issues of the first scoring pass over the article as it was given
FirstIssues == ScorePass(Article, Plan).issues

\* the codes _attempt_auto_fix has a rule for
FixRuleCodes == {"MISSING_GAMBLING_DISCLAIMER", "INSUFFICIENT_LSI_TERMS"}

\* positions of the issues of the first pass that match a fix rule
Fixable == {k \in 1..Len(FirstIssues) : FirstIssues[k].code \in FixRuleCodes}

\* a validate call whose auto-fix was triggered: requested, budget unspent,
\* first pass scored, plan present
FixTriggered ==
    /\ ValidateReplied /\ AutoFix
    /\ response.budget_before < max_auto_fixes
    /\ Truthy(Plan)
    /\ ScorePass(Article, Plan).error = ""

\* C16 as stated: a triggered auto-fix applies only the rule of the first
\* issue that matches a fix rule; once the disclaimer rule or the no-op
\* INSUFFICIENT_LSI_TERMS rule has matched, later issues change the text no more.
C16_FirstMatchOnly ==
    (FixTriggered /\ Fixable # {}) =>
        LET first == CHOOSE k \in Fixable : \A j \in Fixable : k <= j
        IN response.scored_text =
              IF FirstIssues[first].code = "MISSING_GAMBLING_DISCLAIMER"
              THEN Article \o disclaimer
              ELSE Article

\* C17: when auto-fix is requested with the budget unspent and no issue of
\* the first pass matches a rule that changes the text (none matches, or only
\* the no-op INSUFFICIENT_LSI_TERMS rule does), the article is scored as given
\* in one pass, auto_fix_attempts keeps its value, and the reply is the one of
\* the same call with auto_fix=false.
C17_NoFixNoEffect ==
    ( /\ ValidateReplied /\ AutoFix
      /\ response.budget_before < max_auto_fixes
      /\ ScorePass(Article, Plan).error = ""
      /\ \/ ~Truthy(Plan)
         \/ CountCode(FirstIssues, "MISSING_GAMBLING_DISCLAIMER") = 0 )
    => /\ response.scored_text = Article
       /\ response.passes = 1
       /\ auto_fix_attempts = response.budget_before
       /\ appended = 0
       /\ response.raised = Reply(PlainValidate(Article, Plan)).raised
       /\ response.content = Reply(PlainValidate(Article, Plan)).content

\* auto-fix requested, only the INSUFFICIENT_LSI_TERMS rule matches
C17_OnlyLsiRuleMatches ==
    /\ FixTriggered /\ HasResult
    /\ CountCode(FirstIssues, "INSUFFICIENT_LSI_TERMS") = 1
    /\ CountCode(FirstIssues, "MISSING_GAMBLING_DISCLAIMER") = 0
    /\ response.scored_text = Article
    /\ auto_fix_attempts = 0
    /\ Item.auto_fixes = <<>>

\* the sections of the article as the parser sees them
Sections == parse_article(Article).sections

\* <<section index from 0, paragraph position from 1>> of every paragraph that
\* holds a link whose text is the primary anchor
AnchorSpots ==
    { sp \in UNION { { <<s - 1, p>> : p \in 1..Len(Sections[s].paragraphs) } :
                     s \in 1..Len(Sections) } :
        LET links == extract_links(<<Sections[sp[1] + 1].paragraphs[sp[2]].text>>)
        IN \E k \in 1..Len(links) : links[k].text = Plan.anchor_plan.primary }

\* C18 as stated: with the anchor link present in one paragraph and the anchor
\* text in no header, placement is judged where the anchor link itself is:
\* ANCHOR_TOO_DEEP iff its paragraph position is above 5, ANCHOR_PLACEMENT_WRONG
\* iff the middle section is required and its section index is more than 1
\* from floor(#sections / 2), whatever other links the article holds.
C18_JudgedAtAnchorLink ==
    ( /\ ValidateReplied /\ HasResult /\ Truthy(Plan)
      /\ ~AnchorInTitle
      /\ Cardinality(AnchorSpots) = 1 )
    => LET spot == CHOOSE sp \in AnchorSpots : TRUE
       IN /\ CountCode(Item.issues, "ANCHOR_TOO_DEEP") = (IF spot[2] > 5 THEN 1 ELSE 0)
          /\ CountCode(Item.issues, "ANCHOR_PLACEMENT_WRONG") =
                (IF /\ Plan.anchor_plan.placement.section = "mittpunkt"
                    /\ Abs(spot[1] - (Len(Sections) \div 2)) > 1
                 THEN 1 ELSE 0)

\* C19 as stated: for a plan built from an order asking for W words, the
\* validation of an article against it reports WORD_COUNT_MISMATCH exactly
\* when the word count of the scored text is more than 20% of W away from W.
C19_BuiltTargetDecides ==
    (ValidateReplied /\ HasResult /\ Plan \in BuiltPlans)
    => CountCode(Item.issues, "WORD_COUNT_MISMATCH") =
          (IF WordCountOff(CountWords(response.scored_text),
                           O_short.constraints.word_count)
           THEN 1 ELSE 0)

\* the lower-cased sentences of the scored text, in document order
ScoredSentences == AllSentences(parse_article(response.scored_text).sections)

\* the positions of the sentences that contain the anchor text
AnchorSentences ==
    {k \in 1..Len(ScoredSentences) :
        Contains(ScoredSentences[k], LowerSeq(Plan.anchor_plan.primary))}

\* the required terms present within radius sentences of sentence k
TermsAround(k) ==
    LET radius == Plan.lsi_near_window.policy.radius_sentences
    IN FoundTerms(Plan.lsi_near_window.terms,
                  Flatten(SubSeq(ScoredSentences, Max(1, k - radius),
                                 Min(Len(ScoredSentences), k + radius))))

\* C20 as stated: the window of topical terms lies around the first sentence
\* that contains the anchor text, and the number of required terms in it
\* decides: below the minimum, score 0 with INSUFFICIENT_LSI_TERMS; above the
\* maximum, 10 off with EXCESSIVE_LSI_TERMS; otherwise 100 and no issue.
C20_WindowAtFirstSentence ==
    ( /\ ValidateReplied /\ HasResult /\ Truthy(Plan)
      /\ Has(Plan, "lsi_near_window") /\ HasPrimary(Plan)
      /\ AnchorSentences # {} )
    => LET first  == CHOOSE k \in AnchorSentences : \A j \in AnchorSentences : k <= j
           found  == TermsAround(first)
           policy == Plan.lsi_near_window.policy
       IN /\ Item.breakdown.lsi = (IF found < policy.min THEN 0
                                   ELSE IF found > policy.max THEN 90 ELSE 100)
          /\ CountCode(Item.issues, "INSUFFICIENT_LSI_TERMS") =
                (IF found < policy.min THEN 1 ELSE 0)
          /\ CountCode(Item.issues, "EXCESSIVE_LSI_TERMS") =
                (IF found >= policy.min /\ found > policy.max THEN 1 ELSE 0)

\* the issue codes of one category in the result
CodesOf(category) ==
    LET found == IssuesOf(Item.issues, category)
    IN [k \in 1..Len(found) |-> found[k].code]

\* the article data of the text the result was scored on
ScoredData == parse_article(response.scored_text)

\* C21 as stated: a plan whose trust field is absent or lists no sources
\* gives trust 70 and no trust issue; otherwise no source found gives 0 with
\* MISSING_TRUST_SIGNALS, some found gives 100 - 20 per missing source with
\* INSUFFICIENT_TRUST_SIGNALS, and all found gives 100.
C21_TrustByRequirement ==
    (ValidateReplied /\ HasResult)
    => LET required == IF Truthy(Plan) /\ Has(Plan, "trust") THEN Plan.trust ELSE <<>>
           found    == FoundTrust(required, ScoredData.full_text)
       IN IF required = <<>>
          THEN Item.breakdown.trust = 70 /\ CodesOf("trust") = <<>>
          ELSE IF found = 0
          THEN Item.breakdown.trust = 0 /\ CodesOf("trust") = <<"MISSING_TRUST_SIGNALS">>
          ELSE IF found < Len(required)
          THEN /\ Item.breakdown.trust = 100 - 20 * (Len(required) - found)
               /\ CodesOf("trust") = <<"INSUFFICIENT_TRUST_SIGNALS">>
          ELSE Item.breakdown.trust = 100 /\ CodesOf("trust") = <<>>

\* the categories the plan requires a disclaimer for
RequiredCategories ==
    LET required == IF Truthy(Plan) THEN RequiredCompliance(Plan) ELSE <<>>
    IN {required[k] : k \in 1..Len(required)}

\* the required categories none of whose disclaimer phrases is in the scored text
MissingCategories ==
    {c \in RequiredCategories :
        ~\E disc \in Disclaimers(c) : InTextLower(ScoredData.full_text, disc)}

\* C22 as stated: the compliance score is 100 when no required category
\* misses its disclaimer (no plan and no required category included) and 0
\* otherwise, and the compliance issues are exactly one
\* MISSING_<CATEGORY>_DISCLAIMER for each required category that misses it.
C22_OneIssuePerCategory ==
    (ValidateReplied /\ HasResult)
    => /\ Item.breakdown.compliance = (IF MissingCategories = {} THEN 100 ELSE 0)
       /\ Len(CodesOf("compliance")) = Cardinality(MissingCategories)
       /\ \A c \in MissingCategories :
             CountCode(Item.issues, "MISSING_" \o Upper(c) \o "_DISCLAIMER") = 1

\* how often the phrase occurs in the lower-cased scored text
Occurrences(phrase) ==
    LET f == LowerSeq(Flatten(ScoredData.full_text))
    IN Cardinality({i \in 0..(Len(f) - Len(phrase)) :
                       \A j \in 1..Len(phrase) : f[i + j] = phrase[j]})

RECURSIVE TotalOccurrences(_)
\* the occurrences of the first k promotional phrases together
TotalOccurrences(k) ==
    IF k = 0 THEN 0 ELSE Occurrences(promo_phrases[k]) + TotalOccurrences(k - 1)

\* C24 as stated: the voice-fit rule counts every occurrence of the
\* promotional phrases, repeats of one phrase included: more than 3 in total
\* give fit 70 with OVERLY_PROMOTIONAL, 3 or fewer give fit 90 and no such
\* issue.
C24_EveryOccurrenceCounts ==
    (ValidateReplied /\ HasResult)
    => LET many == TotalOccurrences(Len(promo_phrases)) > max_promo
       IN /\ Item.breakdown.fit = (IF many THEN 70 ELSE 90)
          /\ CountCode(Item.issues, "OVERLY_PROMOTIONAL") = (IF many THEN 1 ELSE 0)

\* some issue of the result has a code of the critical set
CriticalIssue == \E k \in 1..Len(Item.issues) : Item.issues[k].code \in critical_codes

\* some category score of the result is below 50
LowScore == \E c \in DOMAIN Item.breakdown : Item.breakdown[c] < signoff_below

\* C23: human_signoff_required is true exactly when an issue code is in
\* {ANCHOR_IN_HEADER, ERR_TRUST_COMPETITOR, ERR_COMPLIANCE} or a category
\* score is below 50, which is the same as: a category score is below 50,
\* because ANCHOR_IN_HEADER, the only critical code emitted, comes with
\* anchor score 0.
C23_SignoffIsLowScore ==
    (ValidateReplied /\ HasResult)
    => /\ Item.human_signoff_required = (CriticalIssue \/ LowScore)
       /\ (CriticalIssue \/ LowScore) = LowScore
       /\ \A k \in 1..Len(Item.issues) :
             Item.issues[k].code \in critical_codes
             => Item.issues[k].code = "ANCHOR_IN_HEADER" /\ Item.breakdown.anchor = 0

\* the anchor in a header is the only reason for the sign-off
C23_HeaderOnly ==
    /\ ValidateReplied /\ HasResult
    /\ CountCode(Item.issues, "ANCHOR_IN_HEADER") = 1
    /\ Item.breakdown.anchor = 0
    /\ \A c \in DOMAIN Item.breakdown : c # "anchor" => Item.breakdown[c] >= signoff_below
    /\ Item.human_signoff_required

\* C25 as stated: no result has status APPROVED while one of its issues has
\* type "error"; an error issue keeps the composite score below 85.
C25_NoApprovedWithError ==
    (ValidateReplied /\ HasResult)
    => \A k \in 1..Len(Item.issues) :
          Item.issues[k].type = "error"
          => Item.status # "APPROVED" /\ Item.score < approved_min

\* C26: every result of validate has an empty auto_fixes list; after a
\* disclaimer fix the result is the fresh result of scoring the fixed text,
\* and the record of the LSI fix that changes nothing is dropped as well.
C26_AutoFixesAlwaysEmpty ==
    (ValidateReplied /\ HasResult)
    => /\ Item.auto_fixes = <<>>
       /\ response.passes = 2
          => Item = PlainValidate(response.scored_text, Plan).value

\* the disclaimer was appended and the result does not show it
C26_FixNotReported ==
    /\ ValidateReplied /\ HasResult /\ AutoFix
    /\ response.passes = 2
    /\ response.scored_text = Article \o disclaimer
    /\ Item.auto_fixes = <<>>

\* C27: without a plan the composite score (kept in tenths) is at most 72.0
\* whatever the article is, so the status is never APPROVED.
C27_UnplannedAtMost72 ==
    (ValidateReplied /\ HasResult /\ ~Truthy(Plan))
    => Item.score <= 720 /\ Item.status # "APPROVED"

\* a clean article without a plan reaches 72.0 and LIGHT_EDITS
C27_BestUnplanned ==
    /\ ValidateReplied /\ HasResult /\ ~Truthy(Plan)
    /\ Item.score = 720
    /\ Item.status = "LIGHT_EDITS"

\* C28 as stated: whenever auto-fix appends the disclaimer, the composite
\* score of the returned, re-scored result is at least the composite score
\* of the original text under the same plan.
C28_FixNeverLowersScore ==
    ( /\ ValidateReplied /\ HasResult /\ response.passes = 2
      /\ response.scored_text = Article \o disclaimer )
    => Item.score >= PlainValidate(Article, Plan).value.score

\* the request's text is what auto-fix made of a sample article under the plan
FixedTextSent ==
    \E a \in SampleArticles :
        /\ Article = a \o disclaimer
        /\ ScorePass(a, Plan).error = ""
        /\ attempt_auto_fix(a, ScorePass(a, Plan).issues, Plan).fixed_text = Article

\* C29: when auto-fix appends the gambling disclaimer, the returned result
\* has no MISSING_GAMBLING_DISCLAIMER issue, and a validation of the fixed
\* text with auto_fix set, on a validator whose budget is unspent, appends
\* nothing and leaves the budget unspent.
C29_FixIsIdempotent ==
    /\ ( /\ ValidateReplied /\ HasResult /\ response.passes = 2
         /\ response.scored_text = Article \o disclaimer )
       => /\ CountCode(Item.issues, "MISSING_GAMBLING_DISCLAIMER") = 0
          /\ attempt_auto_fix(response.scored_text, Item.issues, Plan).fixed_text
                = response.scored_text
    /\ ( /\ ValidateReplied /\ HasResult /\ AutoFix
         /\ response.budget_before = 0 /\ FixedTextSent )
       => /\ response.passes = 1
          /\ response.scored_text = Article
          /\ CountCode(Item.issues, "MISSING_GAMBLING_DISCLAIMER") = 0
          /\ auto_fix_attempts = 0
          /\ appended = 0

\* the fixed text of test_auto_fix validated again, the budget unspent
C29_FixedTextAgain ==
    /\ ValidateReplied /\ HasResult /\ AutoFix
    /\ response.budget_before = 0
    /\ FixedTextSent
    /\ Article = A_auto_fix \o disclaimer
    /\ response.passes = 1
    /\ auto_fix_attempts = 0

\* C30: a plan built by the builder has policy minimum 6, maximum 10 and 6
\* to 10 terms, so a validation against it never emits EXCESSIVE_LSI_TERMS
\* and its lsi score is 0 or 100, whatever the article is.
C30_BuiltPlanNeverExcessive ==
    (ValidateReplied /\ HasResult /\ Plan \in BuiltPlans)
    => /\ Plan.lsi_near_window.policy.min = min_lsi_terms
       /\ Plan.lsi_near_window.policy.max = policy_max
       /\ Len(Plan.lsi_near_window.terms) \in min_lsi_terms..policy_max
       /\ CountCode(Item.issues, "EXCESSIVE_LSI_TERMS") = 0
       /\ Item.breakdown.lsi \in {0, 100}

\* every term of a built plan is next to the anchor and the lsi score is 100
C30_AllTermsInWindow ==
    /\ ValidateReplied /\ HasResult /\ Plan \in BuiltPlans
    /\ Article = A_lsi_rich
    /\ Len(Plan.lsi_near_window.terms) = policy_max
    /\ TermsAround(CHOOSE k \in AnchorSentences : TRUE) = policy_max
    /\ Item.breakdown.lsi = 100

====
